---- MODULE Spec2Model ----
(***************************************************************************)
(* Session-lock core of SafeNode (src-tauri/src/main.rs).                  *)
(*                                                                         *)
(* AppState holds four independently locked fields.  Commands run as tasks *)
(* of the multi-threaded async runtime, so two commands, a tray handler's  *)
(* spawned task and the auto-lock monitoring thread interleave between any *)
(* two mutex acquisitions.  One step of the model is one statement of the  *)
(* source that takes a mutex (or installs the tray menu).                  *)
(*                                                                         *)
(* An Instant is represented by its age in seconds (Instant::now() is age  *)
(* 0, the passage of time ages every stored Instant, elapsed() reads the   *)
(* age); ages saturate at MaxAge, which is at least every timeout used.    *)
(***************************************************************************)
EXTENDS Integers, Sequences, FiniteSets, Bags, TLC

\* ---------------------------------------------------------------- bounds
MaxTasks == 2        \* tasks of the async runtime that can be in flight
TimeStep == 150      \* seconds that pass in one Tick
MaxAge == 300        \* ages of Instants saturate here

\* ------------------------------------------------------ program constants
DefaultAutoLock == 300   \* Mutex::new(Some(300))
TrayOneMin == 60         \* "auto_lock_1" => Some(60)
TrayFiveMin == 300       \* "auto_lock_5" => Some(300)
PollSecs == 5            \* sleep(Duration::from_secs(5))

DemoPassword == "demo-password"

\* Option<T>: None is the empty sequence, Some(x) the one-element sequence.
None == << >>
Some(x) == << x >>

Min(a, b) == IF a <= b THEN a ELSE b

\* ----------------------------------------------------------------- inputs
Passwords == {DemoPassword, "wrong"}
\* the seconds a set_auto_lock_timer call is given
TimerChoices == {None, Some(0), Some(TrayOneMin), Some(TrayFiveMin)}

VARIABLES
    vault_data,       \* AppState.vault_data: Option<String>
    is_unlocked,      \* AppState.is_unlocked: bool
    last_activity,    \* AppState.last_activity: Option<Instant> (as an age)
    auto_lock_timer,  \* AppState.auto_lock_timer: Option<u64>
    timer_held,       \* a task holds the auto_lock_timer mutex
    tray_menu,        \* the menu last installed on the "main" tray
    tasks,            \* the tasks of the async runtime in flight (a bag)
    monitor,          \* the auto-lock monitoring thread: position and locals
    result,           \* what the most recently completed operation returned
    session_idle      \* history: the time since the last unlock or activity event
                      \* of a session whose gaps between such events have all
                      \* been below the configured timeout; None otherwise

fields == << vault_data, is_unlocked, last_activity, auto_lock_timer >>

vars == << vault_data, is_unlocked, last_activity, auto_lock_timer,
           timer_held, tray_menu, tasks, monitor, result, session_idle >>

\* A task at statement pc of command op; auto: spawned by the monitoring thread.
TaskAt(op, pc, auto) == [op |-> op, pc |-> pc, auto |-> auto, is_unlocked |-> FALSE]

NoResult == [op |-> "none", bool |-> FALSE, seconds |-> None]

\* Ok(()) of a command
OkUnit(op) == [op |-> op, bool |-> FALSE, seconds |-> None]

\* Ok(b) of a command returning bool
OkBool(op, b) == [op |-> op, bool |-> b, seconds |-> None]

\* Ok(o) of a command returning Option<u64>
OkSeconds(op, o) == [op |-> op, bool |-> FALSE, seconds |-> o]

\* The monitoring thread asleep, its locals dead.
MonitorAsleep == [pc |-> "sleep", slept |-> 0, auto_lock_timer |-> None]

\* The item ids of the tray menu, in order.
create_system_tray_menu(unlocked) ==
    << "show" >> \o (IF unlocked THEN << "lock" >> ELSE << >>)
        \o << "auto_lock_1", "auto_lock_5", "auto_lock_15", "auto_lock_30",
              "auto_lock_off", "quit" >>

Init ==
    /\ vault_data = None
    /\ is_unlocked = FALSE
    /\ last_activity = None
    /\ auto_lock_timer = Some(DefaultAutoLock)
    /\ timer_held = FALSE
    /\ tray_menu = create_system_tray_menu(FALSE)
    /\ tasks = EmptyBag
    /\ monitor = MonitorAsleep
    /\ result = NoResult
    /\ session_idle = None

\* ------------------------------------------------------------ the runtime
\* Every statement a task can be at, with the locals that are live there.
TaskStates ==
    {[op |-> "unlock_vault", pc |-> pc, auto |-> FALSE, is_unlocked |-> FALSE] : pc \in 1 .. 2}
    \cup {[op |-> "unlock_vault", pc |-> 3, auto |-> FALSE, is_unlocked |-> b] : b \in BOOLEAN}
    \cup {[op |-> "lock_vault", pc |-> pc, auto |-> FALSE, is_unlocked |-> FALSE] : pc \in 1 .. 3}
    \cup {[op |-> "lock_vault", pc |-> pc, auto |-> TRUE, is_unlocked |-> FALSE] : pc \in 0 .. 3}
    \cup {[op |-> "set_auto_lock_timer", pc |-> 1, auto |-> FALSE, is_unlocked |-> FALSE]}
    \cup {[op |-> "set_auto_lock_timer", pc |-> 2, auto |-> FALSE, is_unlocked |-> b] : b \in BOOLEAN}

AllIdle == tasks = EmptyBag

\* A task can be started.  serial: the callers await each call before making
\* the next one, so that one task is in flight at a time.
CanSpawn(serial) == BagCardinality(tasks) < MaxTasks /\ (serial => AllIdle)

Spawn(task) == tasks' = tasks (+) SetToBag({task})

\* The task returns r.
Complete(task, r) ==
    /\ tasks' = tasks (-) SetToBag({task})
    /\ result' = r

\* The task goes on as next.
Continue(task, next) == tasks' = (tasks (-) SetToBag({task})) (+) SetToBag({next})

Goto(task, pc) == Continue(task, [task EXCEPT !.pc = pc])

At(task, op, pc) == BagIn(task, tasks) /\ task.op = op /\ task.pc = pc

\* ------------------------------------------------------------------- time
Advance(instant) ==
    IF instant = None THEN None ELSE Some(Min(instant[1] + TimeStep, MaxAge))

\* A session stays active while every gap between its activity events is
\* below the configured timeout.
StillActive(idle, timeout) ==
    IF idle # None /\ timeout # None /\ idle[1] >= timeout[1] THEN None ELSE idle

\* TimeStep seconds pass.
Tick ==
    /\ last_activity' = Advance(last_activity)
    /\ monitor' = [monitor EXCEPT
                     !.slept = IF monitor.pc = "sleep" THEN Min(@ + TimeStep, PollSecs) ELSE @]
    /\ session_idle' = StillActive(Advance(session_idle), auto_lock_timer)
    /\ UNCHANGED << vault_data, is_unlocked, auto_lock_timer, timer_held, tray_menu,
                    tasks, result >>

\* --------------------------------------------------------------- commands
\* A command starts with its first statement; the statements after it run as
\* a task of the runtime, one at a time (RunTask).

\* Variant of UnlockVaultCheck that never compares the password.
UnlockVaultCheck_AnyPassword(serial, password) ==
    /\ CanSpawn(serial)
    /\ is_unlocked' = TRUE
    /\ Spawn(TaskAt("unlock_vault", 1, FALSE))
    /\ session_idle' = StillActive(Some(0), auto_lock_timer)
    /\ UNCHANGED << vault_data, last_activity, auto_lock_timer, timer_held, tray_menu,
                    monitor, result >>

\* unlock_vault: if password == "demo-password" { *is_unlocked = true; ... } else { Ok(false) }
UnlockVaultCheck(serial, password) ==
    /\ CanSpawn(serial)
    /\ IF password = DemoPassword
       THEN /\ is_unlocked' = TRUE
            /\ Spawn(TaskAt("unlock_vault", 1, FALSE))
            /\ session_idle' = StillActive(Some(0), auto_lock_timer)
            /\ UNCHANGED result
       ELSE /\ result' = OkBool("unlock_vault", FALSE)
            /\ UNCHANGED << is_unlocked, tasks, session_idle >>
    /\ UNCHANGED << vault_data, last_activity, auto_lock_timer, timer_held, tray_menu,
                    monitor >>

\* *state.last_activity.lock().unwrap() = Some(Instant::now());
UnlockVaultSetActivity(t) ==
    /\ At(t, "unlock_vault", 1)
    /\ last_activity' = Some(0)
    /\ Goto(t, 2)
    /\ UNCHANGED << vault_data, is_unlocked, auto_lock_timer, timer_held, tray_menu,
                    monitor, result, session_idle >>

\* let is_unlocked = *state.is_unlocked.lock().unwrap();
UnlockVaultReadUnlocked(t) ==
    /\ At(t, "unlock_vault", 2)
    /\ Continue(t, [t EXCEPT !.is_unlocked = is_unlocked, !.pc = 3])
    /\ UNCHANGED << vault_data, is_unlocked, last_activity, auto_lock_timer, timer_held,
                    tray_menu, monitor, result, session_idle >>

\* tray.set_menu(create_system_tray_menu(is_unlocked)); Ok(true)
UnlockVaultSetMenu(t) ==
    /\ At(t, "unlock_vault", 3)
    /\ tray_menu' = create_system_tray_menu(t.is_unlocked)
    /\ Complete(t, OkBool("unlock_vault", TRUE))
    /\ UNCHANGED << vault_data, is_unlocked, last_activity, auto_lock_timer, timer_held,
                    monitor, session_idle >>

\* Variant of SetLocked that flips the flag.
SetLocked_Toggle ==
    /\ is_unlocked' = ~is_unlocked
    /\ session_idle' = None

\* *state.is_unlocked.lock().unwrap() = false;
SetLocked ==
    /\ is_unlocked' = FALSE
    /\ session_idle' = None

\* lock_vault invoked by the frontend or spawned by the tray's "lock"
LockVaultSetLocked(serial) ==
    /\ CanSpawn(serial)
    /\ SetLocked
    /\ Spawn(TaskAt("lock_vault", 1, FALSE))
    /\ UNCHANGED << vault_data, last_activity, auto_lock_timer, timer_held, tray_menu,
                    monitor, result >>

\* lock_vault in the task the monitoring thread spawned
LockVaultSetLockedAuto(t) ==
    /\ At(t, "lock_vault", 0)
    /\ SetLocked
    /\ Goto(t, 1)
    /\ UNCHANGED << vault_data, last_activity, auto_lock_timer, timer_held, tray_menu,
                    monitor, result >>

\* Variant of LockVaultClearData that clears the timeout with the data.
LockVaultClearData_ClearsTimer(t) ==
    /\ At(t, "lock_vault", 1)
    /\ vault_data' = None
    /\ auto_lock_timer' = None
    /\ Goto(t, 2)
    /\ UNCHANGED << is_unlocked, last_activity, timer_held, tray_menu,
                    monitor, result, session_idle >>

\* *state.vault_data.lock().unwrap() = None;
LockVaultClearData(t) ==
    /\ At(t, "lock_vault", 1)
    /\ vault_data' = None
    /\ Goto(t, 2)
    /\ UNCHANGED << is_unlocked, last_activity, auto_lock_timer, timer_held, tray_menu,
                    monitor, result, session_idle >>

\* Variant of LockVaultClearActivity that leaves the activity stamp in place.
LockVaultClearActivity_Keep(t) ==
    /\ At(t, "lock_vault", 2)
    /\ Goto(t, 3)
    /\ UNCHANGED << vault_data, is_unlocked, last_activity, auto_lock_timer, timer_held,
                    tray_menu, monitor, result, session_idle >>

\* *state.last_activity.lock().unwrap() = None;
LockVaultClearActivity(t) ==
    /\ At(t, "lock_vault", 2)
    /\ last_activity' = None
    /\ Goto(t, 3)
    /\ UNCHANGED << vault_data, is_unlocked, auto_lock_timer, timer_held, tray_menu,
                    monitor, result, session_idle >>

\* tray.set_menu(create_system_tray_menu(false)); Ok(())
\* (the monitor's task then hides the window, which is no state of the session)
LockVaultSetMenu(t) ==
    /\ At(t, "lock_vault", 3)
    /\ tray_menu' = create_system_tray_menu(FALSE)
    /\ Complete(t, OkUnit("lock_vault"))
    /\ UNCHANGED << vault_data, is_unlocked, last_activity, auto_lock_timer, timer_held,
                    monitor, session_idle >>

\* Variant of get_vault_status that answers Ok(true) whatever the flag is.
get_vault_status_AlwaysTrue(serial) ==
    /\ CanSpawn(serial)
    /\ result' = OkBool("get_vault_status", TRUE)
    /\ UNCHANGED << vault_data, is_unlocked, last_activity, auto_lock_timer, timer_held,
                    tray_menu, tasks, monitor, session_idle >>

\* Ok(*state.is_unlocked.lock().unwrap())
get_vault_status(serial) ==
    /\ CanSpawn(serial)
    /\ result' = OkBool("get_vault_status", is_unlocked)
    /\ UNCHANGED << vault_data, is_unlocked, last_activity, auto_lock_timer, timer_held,
                    tray_menu, tasks, monitor, session_idle >>

\* Variant of update_activity that takes recorded activity for an unlock.
update_activity_Unlocks(serial) ==
    /\ CanSpawn(serial)
    /\ last_activity' = Some(0)
    /\ is_unlocked' = TRUE
    /\ session_idle' = IF session_idle = None THEN None ELSE Some(0)
    /\ result' = OkUnit("update_activity")
    /\ UNCHANGED << vault_data, auto_lock_timer, timer_held, tray_menu,
                    tasks, monitor >>

\* *last_activity = Some(Instant::now()); Ok(())
update_activity(serial) ==
    /\ CanSpawn(serial)
    /\ last_activity' = Some(0)
    /\ session_idle' = IF session_idle = None THEN None ELSE Some(0)
    /\ result' = OkUnit("update_activity")
    /\ UNCHANGED << vault_data, is_unlocked, auto_lock_timer, timer_held, tray_menu,
                    tasks, monitor >>

\* show_system_tray: window.hide(), then update_activity(state)
show_system_tray(serial) == update_activity(serial)

\* show_main_window: window.show(), window.set_focus(), then update_activity(state)
show_main_window(serial) == update_activity(serial)

\* the task spawned by a left click on the tray with the window hidden, and
\* by the tray's "show": *last_activity = Some(Instant::now())
TrayShow(serial) == update_activity(serial)

\* let mut timer = state.auto_lock_timer.lock().unwrap(); *timer = seconds;
\* the guard lives until the command returns
SetTimerWrite(serial, seconds) ==
    /\ CanSpawn(serial)
    /\ ~timer_held
    /\ timer_held' = TRUE
    /\ auto_lock_timer' = seconds
    /\ Spawn(TaskAt("set_auto_lock_timer", 1, FALSE))
    /\ session_idle' = StillActive(session_idle, seconds)
    /\ UNCHANGED << vault_data, is_unlocked, last_activity, tray_menu, monitor, result >>

\* Variant of SetTimerReadUnlocked that locks a session already idle beyond the
\* new timeout.
SetTimerReadUnlocked_LocksIfDue(t) ==
    /\ At(t, "set_auto_lock_timer", 1)
    /\ is_unlocked' = (is_unlocked /\ ~(auto_lock_timer # None
                                          /\ last_activity # None
                                          /\ last_activity[1] >= auto_lock_timer[1]))
    /\ Continue(t, [t EXCEPT !.is_unlocked = is_unlocked', !.pc = 2])
    /\ UNCHANGED << vault_data, last_activity, auto_lock_timer, timer_held,
                    tray_menu, monitor, result, session_idle >>

\* let is_unlocked = *state.is_unlocked.lock().unwrap();
SetTimerReadUnlocked(t) ==
    /\ At(t, "set_auto_lock_timer", 1)
    /\ Continue(t, [t EXCEPT !.is_unlocked = is_unlocked, !.pc = 2])
    /\ UNCHANGED << vault_data, is_unlocked, last_activity, auto_lock_timer, timer_held,
                    tray_menu, monitor, result, session_idle >>

\* Variant of SetTimerSetMenu that returns without dropping the guard.
SetTimerSetMenu_KeepsGuard(t) ==
    /\ At(t, "set_auto_lock_timer", 2)
    /\ tray_menu' = create_system_tray_menu(t.is_unlocked)
    /\ Complete(t, OkUnit("set_auto_lock_timer"))
    /\ UNCHANGED << vault_data, is_unlocked, last_activity, auto_lock_timer, timer_held,
                    monitor, session_idle >>

\* tray.set_menu(create_system_tray_menu(is_unlocked)); Ok(()) drops the guard
SetTimerSetMenu(t) ==
    /\ At(t, "set_auto_lock_timer", 2)
    /\ tray_menu' = create_system_tray_menu(t.is_unlocked)
    /\ timer_held' = FALSE
    /\ Complete(t, OkUnit("set_auto_lock_timer"))
    /\ UNCHANGED << vault_data, is_unlocked, last_activity, auto_lock_timer, monitor,
                    session_idle >>

\* Ok(*state.auto_lock_timer.lock().unwrap())
get_auto_lock_timer(serial) ==
    /\ CanSpawn(serial)
    /\ ~timer_held
    /\ result' = OkSeconds("get_auto_lock_timer", auto_lock_timer)
    /\ UNCHANGED << vault_data, is_unlocked, last_activity, auto_lock_timer, timer_held,
                    tray_menu, tasks, monitor, session_idle >>

\* ------------------------------------------------- biometrics (biometrics.rs)
\* The build's target_os selects the authenticator; "other" is the fallback of
\* #[cfg(not(any(macos, windows, linux)))].
Platforms == {"macos", "windows", "linux", "other"}

\* the prompt an authenticate_biometric call is given
Prompts == {"", "Unlock SafeNode"}

\* Result<T, String>
Ok(v) == [ok |-> TRUE, value |-> v]
Err(e) == [ok |-> FALSE, value |-> e]

\* Variant of is_available that fails where there is no biometric hardware.
is_available_Fails(target_os) ==
    IF target_os \in {"macos", "windows"}
    THEN Ok([available |-> TRUE, biometric_type |-> "Fingerprint", enrolled |-> TRUE])
    ELSE Err("Biometric authentication not available on this platform")

\* BiometricAuthenticator::is_available of the platform's authenticator
is_available(target_os) ==
    IF target_os \in {"macos", "windows"}
    THEN Ok([available |-> TRUE, biometric_type |-> "Fingerprint", enrolled |-> TRUE])
    ELSE Ok([available |-> FALSE, biometric_type |-> "Unknown", enrolled |-> FALSE])

\* BiometricAuthenticator::authenticate of the platform's authenticator
authenticate(target_os, prompt) ==
    CASE target_os = "macos" ->
           Ok([success |-> TRUE, error |-> None, method |-> Some("Touch ID or Face ID")])
      [] target_os = "windows" ->
           Ok([success |-> TRUE, error |-> None, method |-> Some("Windows Hello")])
      [] target_os = "linux" ->
           Err("Biometric authentication requires fprintd. Install fprintd to enable fingerprint authentication.")
      [] OTHER ->
           Err("Biometric authentication not available on this platform")

\* match availability.biometric_type { Fingerprint => "fingerprint", ... }
BiometricTypeName(biometric_type) ==
    CASE biometric_type = "Fingerprint" -> "fingerprint"
      [] biometric_type = "Face" -> "face"
      [] OTHER -> "unknown"

\* biometrics::check_biometric_available:
\* let availability = authenticator.is_available()?; Ok(json!({...}))
biometrics_check_biometric_available(target_os) ==
    LET availability == is_available(target_os) IN
    IF ~availability.ok
    THEN availability
    ELSE Ok([available |-> availability.value.available,
             type |-> BiometricTypeName(availability.value.biometric_type),
             enrolled |-> availability.value.enrolled])

\* biometrics::authenticate_biometric:
\* let result = authenticator.authenticate(prompt)?;
\* if result.success { Ok(json!({success, method, prompt})) }
\* else { Ok(json!({success, error, prompt})) }
biometrics_authenticate_biometric(target_os, prompt) ==
    LET r == authenticate(target_os, prompt) IN
    IF ~r.ok
    THEN r
    ELSE IF r.value.success
         THEN Ok([success |-> TRUE, method |-> r.value.method, prompt |-> prompt])
         ELSE Ok([success |-> FALSE,
                  error |-> IF r.value.error = None THEN "Authentication failed"
                            ELSE r.value.error[1],
                  prompt |-> prompt])

\* What a command that does not touch AppState returned.
Returned(op, r) == [op |-> op, ok |-> r.ok, value |-> r.value]

\* #[command] check_biometric_available
check_biometric_available(serial, target_os) ==
    /\ CanSpawn(serial)
    /\ result' = Returned("check_biometric_available",
                          biometrics_check_biometric_available(target_os))
    /\ UNCHANGED << vault_data, is_unlocked, last_activity, auto_lock_timer, timer_held,
                    tray_menu, tasks, monitor, session_idle >>

\* Variant of authenticate_biometric that unlocks the session on success.
authenticate_biometric_Unlocks(serial, target_os, prompt) ==
    /\ CanSpawn(serial)
    /\ result' = Returned("authenticate_biometric",
                          biometrics_authenticate_biometric(target_os, prompt))
    /\ is_unlocked' = (is_unlocked \/ (result'.ok /\ result'.value.success))
    /\ UNCHANGED << vault_data, last_activity, auto_lock_timer, timer_held,
                    tray_menu, tasks, monitor, session_idle >>

\* #[command] authenticate_biometric
authenticate_biometric(serial, target_os, prompt) ==
    /\ CanSpawn(serial)
    /\ result' = Returned("authenticate_biometric",
                          biometrics_authenticate_biometric(target_os, prompt))
    /\ UNCHANGED << vault_data, is_unlocked, last_activity, auto_lock_timer, timer_held,
                    tray_menu, tasks, monitor, session_idle >>

\* The biometric commands of invoke_handler.
Biometrics(serial) ==
    \/ \E target_os \in Platforms : check_biometric_available(serial, target_os)
    \/ \E target_os \in Platforms, prompt \in Prompts :
           authenticate_biometric(serial, target_os, prompt)

\* --------------------------------------------- keychain and clipboard commands
\* What the operating system's keyring answers to a call: the entry cannot be
\* created, the operation fails, there is no entry, or the operation succeeds.
KeyringAnswers == {"no_entry_handle", "failed", "NoEntry", "done"}

\* the password a found keychain entry holds
StoredPassword == "stored-password"

\* Ok(())
Unit == << >>

\* Entry::new(..).map_err(..)?; entry.set_password(..).map_err(..)?; Ok(())
save_to_keychain(serial, answer) ==
    /\ CanSpawn(serial)
    /\ result' = Returned("save_to_keychain",
                     CASE answer = "no_entry_handle" -> Err("Failed to create keychain entry")
                       [] answer = "done" -> Ok(Unit)
                       [] OTHER -> Err("Failed to save to keychain"))
    /\ UNCHANGED << vault_data, is_unlocked, last_activity, auto_lock_timer, timer_held,
                    tray_menu, tasks, monitor, session_idle >>

\* Entry::new(..).map_err(..)?; match entry.get_password() {
\*   Ok(password) => Ok(Some(password)), Err(NoEntry) => Ok(None), Err(e) => Err(..) }
get_from_keychain(serial, answer) ==
    /\ CanSpawn(serial)
    /\ result' = Returned("get_from_keychain",
                     CASE answer = "no_entry_handle" -> Err("Failed to create keychain entry")
                       [] answer = "done" -> Ok(Some(StoredPassword))
                       [] answer = "NoEntry" -> Ok(None)
                       [] OTHER -> Err("Failed to get from keychain"))
    /\ UNCHANGED << vault_data, is_unlocked, last_activity, auto_lock_timer, timer_held,
                    tray_menu, tasks, monitor, session_idle >>

\* Entry::new(..).map_err(..)?; entry.delete_password().map_err(..)?; Ok(())
delete_from_keychain(serial, answer) ==
    /\ CanSpawn(serial)
    /\ result' = Returned("delete_from_keychain",
                     CASE answer = "no_entry_handle" -> Err("Failed to create keychain entry")
                       [] answer = "done" -> Ok(Unit)
                       [] OTHER -> Err("Failed to delete from keychain"))
    /\ UNCHANGED << vault_data, is_unlocked, last_activity, auto_lock_timer, timer_held,
                    tray_menu, tasks, monitor, session_idle >>

\* Ok(vec![])
list_keychain_accounts(serial) ==
    /\ CanSpawn(serial)
    /\ result' = Returned("list_keychain_accounts", Ok(<< >>))
    /\ UNCHANGED << vault_data, is_unlocked, last_activity, auto_lock_timer, timer_held,
                    tray_menu, tasks, monitor, session_idle >>

\* println!(..); Ok(())
copy_to_clipboard(serial) ==
    /\ CanSpawn(serial)
    /\ result' = Returned("copy_to_clipboard", Ok(Unit))
    /\ UNCHANGED << vault_data, is_unlocked, last_activity, auto_lock_timer, timer_held,
                    tray_menu, tasks, monitor, session_idle >>

\* The keychain and clipboard commands of invoke_handler.
Keychain(serial) ==
    \/ \E answer \in KeyringAnswers : save_to_keychain(serial, answer)
    \/ \E answer \in KeyringAnswers : get_from_keychain(serial, answer)
    \/ \E answer \in KeyringAnswers : delete_from_keychain(serial, answer)
    \/ list_keychain_accounts(serial)
    \/ copy_to_clipboard(serial)

\* The runtime runs the next statement of task t.
RunTask(t) ==
    \/ UnlockVaultSetActivity(t)
    \/ UnlockVaultReadUnlocked(t)
    \/ UnlockVaultSetMenu(t)
    \/ LockVaultSetLockedAuto(t)
    \/ LockVaultClearData(t)
    \/ LockVaultClearActivity(t)
    \/ LockVaultSetMenu(t)
    \/ SetTimerReadUnlocked(t)
    \/ SetTimerSetMenu(t)

\* The commands of invoke_handler that touch AppState.
Frontend(serial) ==
    \/ \E password \in Passwords : UnlockVaultCheck(serial, password)
    \/ LockVaultSetLocked(serial)
    \/ get_vault_status(serial)
    \/ update_activity(serial)
    \/ show_system_tray(serial)
    \/ show_main_window(serial)
    \/ \E seconds \in TimerChoices : SetTimerWrite(serial, seconds)
    \/ get_auto_lock_timer(serial)

\* on_system_tray_event: a left click on the hidden window and "show" spawn the
\* activity update, "lock" spawns lock_vault, "auto_lock_1", "auto_lock_5" and
\* "auto_lock_off" spawn set_auto_lock_timer ("auto_lock_15" and "auto_lock_30"
\* do so with timeouts beyond MaxAge).
TrayEvent(serial) ==
    \/ TrayShow(serial)
    \/ LockVaultSetLocked(serial)
    \/ \E seconds \in {Some(TrayOneMin), Some(TrayFiveMin), None} : SetTimerWrite(serial, seconds)

\* An operation of the user interface starts.
UserActs == Frontend(FALSE) \/ TrayEvent(FALSE)

\* ------------------------------------------------- the monitoring thread
\* sleep(5 s); let is_unlocked = *state.is_unlocked.lock().unwrap();
\* if !is_unlocked { continue; }
MonitorReadUnlocked ==
    /\ monitor.pc = "sleep"
    /\ monitor.slept >= PollSecs
    /\ monitor' = IF is_unlocked THEN [MonitorAsleep EXCEPT !.pc = "timer"] ELSE MonitorAsleep
    /\ UNCHANGED << vault_data, is_unlocked, last_activity, auto_lock_timer, timer_held,
                    tray_menu, tasks, result, session_idle >>

\* let auto_lock_timer = *state.auto_lock_timer.lock().unwrap();
\* if auto_lock_timer.is_none() { continue; }
MonitorReadTimer ==
    /\ monitor.pc = "timer"
    /\ ~timer_held
    /\ monitor' = IF auto_lock_timer = None
                  THEN MonitorAsleep
                  ELSE [monitor EXCEPT !.pc = "activity", !.auto_lock_timer = auto_lock_timer]
    /\ UNCHANGED << vault_data, is_unlocked, last_activity, auto_lock_timer, timer_held,
                    tray_menu, tasks, result, session_idle >>

\* The tick's decision: last.elapsed().as_secs() >= auto_lock_timer.unwrap()
Expired(last, timeout) == last # None /\ last[1] >= timeout[1]

\* let last_activity = *state.last_activity.lock().unwrap();
\* if let Some(last) = last_activity { if elapsed >= timer { spawn(lock_vault; hide) } }
MonitorReadActivity(serial) ==
    /\ monitor.pc = "activity"
    /\ IF Expired(last_activity, monitor.auto_lock_timer)
       THEN /\ CanSpawn(serial)
            /\ Spawn(TaskAt("lock_vault", 0, TRUE))
       ELSE UNCHANGED tasks
    /\ monitor' = MonitorAsleep
    /\ UNCHANGED << vault_data, is_unlocked, last_activity, auto_lock_timer, timer_held,
                    tray_menu, result, session_idle >>

AutoLockMonitor(serial) ==
    \/ MonitorReadUnlocked
    \/ MonitorReadTimer
    \/ MonitorReadActivity(serial)

\* --------------------------------------------------------- specifications
Next ==
    \/ Tick
    \/ Frontend(FALSE)
    \/ TrayEvent(FALSE)
    \/ \E t \in TaskStates : RunTask(t)
    \/ AutoLockMonitor(FALSE)

Spec == Init /\ [][Next]_vars

\* The callers await each call before making the next one: one task at a time.
NextSeq ==
    \/ Tick
    \/ Frontend(TRUE)
    \/ TrayEvent(TRUE)
    \/ \E t \in TaskStates : RunTask(t)
    \/ AutoLockMonitor(TRUE)

SeqSpec == Init /\ [][NextSeq]_vars

\* The session commands one call at a time, with the biometric, keychain and
\* clipboard commands, which take no State<AppState>, called at any moment.
NextPlatform ==
    \/ NextSeq
    \/ Biometrics(FALSE)
    \/ Keychain(FALSE)

PlatformSpec == Init /\ [][NextPlatform]_vars

\* Time passes, the runtime runs every spawned task, the monitoring thread runs.
FairSpec ==
    /\ Spec
    /\ WF_vars(Tick)
    /\ WF_vars(AutoLockMonitor(FALSE))
    /\ \A t \in TaskStates : WF_vars(RunTask(t))

\* The shape of the state.
TypeOK ==
    /\ vault_data = None
    /\ is_unlocked \in BOOLEAN
    /\ last_activity \in {None} \cup {Some(a) : a \in 0 .. MaxAge}
    /\ auto_lock_timer \in TimerChoices
    /\ timer_held \in BOOLEAN
    /\ tray_menu \in {create_system_tray_menu(b) : b \in BOOLEAN}
    /\ BagToSet(tasks) \subseteq TaskStates
    /\ BagCardinality(tasks) <= MaxTasks
    /\ monitor.pc \in {"sleep", "timer", "activity"}
    /\ timer_held <=> \E t \in BagToSet(tasks) : t.op = "set_auto_lock_timer"

\* ----------------------------------------------------------------- claims
\* The monitoring thread's task takes the session from Unlocked to Locked.
MonitorLocks ==
    /\ is_unlocked
    /\ ~is_unlocked'
    /\ \E t \in BagToSet(tasks) : t.auto /\ t.pc = 0 /\ Goto(t, 1)

\* C1: after every operation (no task in flight), last_activity.is_some()
\* implies unlocked == true.
C1_ActivityImpliesUnlocked ==
    AllIdle => (last_activity # None => is_unlocked)

\* C2: while a session is kept active (every gap between unlock and the
\* activity events after it stays below the configured timeout), the
\* monitoring thread's task never takes the session to Locked.
C2_ActiveSessionNeverAutoLocked ==
    [][MonitorLocks => session_idle = None]_vars

\* C3: if from some point on the user interface starts no operation, a session
\* that is unlocked with a timeout set does not stay so for ever: the
\* monitoring thread locks it.
C3_IdleSessionEventuallyLocked ==
    <>[][~UserActs]_vars => []<>(~is_unlocked \/ auto_lock_timer = None)

\* The most recently completed operation is a set_auto_lock_timer(None) that
\* saw the session unlocked, no later call has changed the timeout, and only
\* tasks of the monitoring thread are in flight.
TimerSwitchedOff ==
    /\ \A t \in BagToSet(tasks) : t.auto
    /\ auto_lock_timer = None
    /\ ~timer_held
    /\ result.op = "set_auto_lock_timer"
    /\ tray_menu = create_system_tray_menu(TRUE)

\* C4: once set_auto_lock_timer(None) has completed on an unlocked session, and
\* for as long as the timeout stays None, the monitoring thread's task never
\* takes the session to Locked.
C4_NoAutoLockWhileDisabled ==
    [][~(TimerSwitchedOff /\ MonitorLocks)]_vars

\* C5: when a tick of the monitoring thread goes on from one read to the next,
\* or decides, the values it read earlier in the tick are still the values of
\* AppState: the three reads come from one state.
C5_MonitorReadsOneState ==
    [][(monitor.pc \in {"timer", "activity"} /\ monitor'.pc # monitor.pc)
          => /\ is_unlocked
             /\ monitor.pc = "activity" => auto_lock_timer = monitor.auto_lock_timer]_vars

\* C6: no state shows a partly applied unlock: unlocked == true with
\* last_activity absent.
C6_UnlockedHasActivity ==
    is_unlocked => last_activity # None

\* C7: update_activity on a locked session leaves every field of AppState as
\* it was.
C7_ActivityWhileLockedIsNoOp ==
    [][(~is_unlocked /\ update_activity(FALSE)) => UNCHANGED fields]_vars

\* C8: with one call at a time, unlock_vault on a locked session with the
\* right password ends in Ok(true) with the session unlocked, with a wrong one
\* it returns Ok(false); and the get_vault_status that comes next returns true
\* after the first and false after the second.
C8_UnlockThenStatus ==
    [][/\ (~is_unlocked /\ \E password \in Passwords \ {DemoPassword} :
                               UnlockVaultCheck(TRUE, password))
             => result' = OkBool("unlock_vault", FALSE)
       /\ (\E t \in BagToSet(tasks) : UnlockVaultSetMenu(t))
             => (result' = OkBool("unlock_vault", TRUE) /\ is_unlocked')
       /\ (result.op = "unlock_vault" /\ result'.op = "get_vault_status")
             => IF result.bool THEN result'.bool ELSE (~is_unlocked => ~result'.bool)]_vars

\* get_vault_status has answered true on a session that unlock_vault has just
\* unlocked (its activity stamp is fresh, its menu shows "lock").
C8_Witness ==
    /\ AllIdle
    /\ result = OkBool("get_vault_status", TRUE)
    /\ last_activity = Some(0)
    /\ tray_menu = create_system_tray_menu(TRUE)

\* C9: unlock_vault with a password that does not match returns Ok(false) and
\* leaves the four fields of AppState as they were, in every state.
C9_WrongPasswordChangesNothing ==
    [][(\E password \in Passwords \ {DemoPassword} : UnlockVaultCheck(FALSE, password))
          => (result' = OkBool("unlock_vault", FALSE) /\ UNCHANGED fields)]_vars

\* unlock_vault has returned Ok(false) on a session that is unlocked, while
\* another task is in flight.
C9_Witness ==
    /\ result = OkBool("unlock_vault", FALSE)
    /\ is_unlocked
    /\ last_activity # None
    /\ ~AllIdle

\* A statement of lock_vault runs.
LockVaultStep ==
    \/ LockVaultSetLocked(TRUE)
    \/ \E t \in BagToSet(tasks) : t.op = "lock_vault" /\ RunTask(t)

\* C10: with one call at a time, every lock_vault returns Ok(()) with the
\* session locked, and a lock_vault that comes right after another one changes
\* neither a field of AppState nor the tray menu.
C10_LockIdempotent ==
    [][/\ (\E t \in BagToSet(tasks) : LockVaultSetMenu(t))
             => (result' = OkUnit("lock_vault") /\ ~is_unlocked')
       /\ (result.op = "lock_vault" /\ LockVaultStep)
             => UNCHANGED << fields, tray_menu >>]_vars

\* The second of two lock_vault calls in a row is about to return.
C10_Witness ==
    /\ result = OkUnit("lock_vault")
    /\ \E t \in BagToSet(tasks) : At(t, "lock_vault", 3)
    /\ ~is_unlocked
    /\ last_activity = None

\* C11: vault_data.is_some() implies is_unlocked in every state; and, with one
\* call at a time, every lock_vault that returns (invoked by the user
\* interface or by the monitoring thread) returns Ok(()) with vault_data and
\* last_activity absent and the session locked.
C11_LockClearsSession ==
    /\ [](vault_data # None => is_unlocked)
    /\ [][(\E t \in BagToSet(tasks) : LockVaultSetMenu(t))
             => /\ result' = OkUnit("lock_vault")
                /\ vault_data' = None
                /\ last_activity' = None
                /\ ~is_unlocked']_vars

\* The lock_vault that the monitoring thread spawned on an idle session has
\* made its three writes and is about to return.
C11_Witness ==
    /\ \E t \in BagToSet(tasks) : At(t, "lock_vault", 3) /\ t.auto
    /\ vault_data = None
    /\ last_activity = None
    /\ ~is_unlocked

\* C12: auto_lock_timer is Some(300) at start; only the write of
\* set_auto_lock_timer changes it (unlock_vault, lock_vault, update_activity,
\* get_vault_status, the monitoring thread and its lock leave it alone); from
\* that write until the call returns it keeps the written value; and
\* get_auto_lock_timer returns it with no set_auto_lock_timer in flight, which
\* makes the value returned that of the set_auto_lock_timer that returned
\* last, or the default.
C12_TimerChangedOnlyBySetter ==
    /\ auto_lock_timer = Some(DefaultAutoLock)
    /\ [][/\ (auto_lock_timer' # auto_lock_timer)
                => \E seconds \in TimerChoices : SetTimerWrite(FALSE, seconds)
          /\ timer_held => (auto_lock_timer' = auto_lock_timer)
          /\ get_auto_lock_timer(FALSE)
                => /\ result' = OkSeconds("get_auto_lock_timer", auto_lock_timer)
                   /\ \A t \in BagToSet(tasks) : t.op # "set_auto_lock_timer"]_vars

\* get_auto_lock_timer has returned the Some(60) set earlier, while a
\* lock_vault of the session is about to return.
C12_Witness ==
    /\ result = OkSeconds("get_auto_lock_timer", Some(TrayOneMin))
    /\ auto_lock_timer = Some(TrayOneMin)
    /\ \E t \in BagToSet(tasks) : At(t, "lock_vault", 3)
    /\ tray_menu = create_system_tray_menu(TRUE)

\* C13: authenticate_biometric on a build without usable biometrics (Linux,
\* where fprintd is required, and the fallback for other platforms) returns
\* Ok with success = false and an error string, never Err.
C13_BiometricFailureIsValue ==
    [][\A target_os \in {"linux", "other"}, prompt \in Prompts :
          authenticate_biometric(FALSE, target_os, prompt)
             => /\ result'.ok
                /\ result'.value.success = FALSE
                /\ "error" \in DOMAIN result'.value]_vars

\* C14: check_biometric_available and authenticate_biometric, whatever they
\* return, leave the four fields of AppState as they were; a successful
\* authentication does not unlock the session.
C14_BiometricsLeaveSessionAlone ==
    [][Biometrics(FALSE) => UNCHANGED fields]_vars

\* authenticate_biometric has returned success = true and the session is
\* locked.
C14_Witness ==
    /\ result.op = "authenticate_biometric"
    /\ result.ok
    /\ result.value.success
    /\ ~is_unlocked
    /\ last_activity = None

\* C15: check_biometric_available on a build without supported biometric
\* hardware (Linux and the fallback for other platforms) returns Ok with
\* available = false, type "unknown" and enrolled = false, never Err.
C15_ProbeUnsupportedIsValue ==
    [][\A target_os \in {"linux", "other"} :
          check_biometric_available(FALSE, target_os)
             => result' = Returned("check_biometric_available",
                              Ok([available |-> FALSE, type |-> "unknown",
                                  enrolled |-> FALSE]))]_vars

\* check_biometric_available has returned available = false.
C15_Witness ==
    /\ result.op = "check_biometric_available"
    /\ result.ok
    /\ ~result.value.available
    /\ result.value.type = "unknown"

\* C16: whenever the monitoring thread's task takes the session from Unlocked
\* to Locked, auto_lock_timer is Some(d) and the activity stamp is at least d
\* old at that moment: a session unlocked again or refreshed after the tick
\* decided is not locked by that tick's task.
C16_AutoLockOnlyWhenDue ==
    [][MonitorLocks
          => /\ auto_lock_timer # None
             /\ Expired(last_activity, auto_lock_timer)]_vars

\* C17: with auto_lock_timer = Some(0), a tick of the monitoring thread that
\* reaches its decision on an unlocked session, with every call of the user
\* interface returned, spawns lock_vault (elapsed >= 0 always holds); and the
\* spawned task leaves the session locked when it sets the flag.
C17_ZeroTimeoutLocksOnNextTick ==
    [][/\ (/\ MonitorReadActivity(FALSE)
            /\ AllIdle
            /\ is_unlocked
            /\ auto_lock_timer = Some(0)
            /\ monitor.auto_lock_timer = Some(0))
           => BagIn(TaskAt("lock_vault", 0, TRUE), tasks')
       /\ (\E t \in BagToSet(tasks) : LockVaultSetLockedAuto(t)) => ~is_unlocked']_vars

\* A statement of set_auto_lock_timer runs.
SetTimerStep ==
    \/ \E seconds \in TimerChoices : SetTimerWrite(FALSE, seconds)
    \/ \E t \in BagToSet(tasks) : SetTimerReadUnlocked(t) \/ SetTimerSetMenu(t)

\* C18: no statement of set_auto_lock_timer changes is_unlocked, vault_data or
\* last_activity, also when the session is already idle beyond the new
\* timeout; the lock of such a session is spawned by a tick of the monitoring
\* thread that finds the stamp expired.
C18_SetterChangesOnlyTimer ==
    [][/\ SetTimerStep => UNCHANGED << is_unlocked, vault_data, last_activity >>
       /\ (MonitorReadActivity(FALSE) /\ Expired(last_activity, monitor.auto_lock_timer))
             => BagIn(TaskAt("lock_vault", 0, TRUE), tasks')]_vars

\* set_auto_lock_timer(Some(60)) has returned on a session that is unlocked and
\* has been idle for longer than 60 s.
C18_Witness ==
    /\ AllIdle
    /\ result = OkUnit("set_auto_lock_timer")
    /\ auto_lock_timer = Some(TrayOneMin)
    /\ is_unlocked
    /\ last_activity # None
    /\ last_activity[1] >= TrayOneMin
    /\ last_activity[1] < DefaultAutoLock

\* C19: no task in flight ever waits for a mutex (its next statement can run in
\* every state, set_auto_lock_timer's read of is_unlocked under the
\* auto_lock_timer guard included); the auto_lock_timer guard, the only one
\* held across statements, is always dropped again; and once the user interface
\* starts no more operations, every task in flight completes and the
\* monitoring thread keeps coming back to its sleep.
C19_NoActorBlocksForever ==
    /\ [](\A t \in BagToSet(tasks) : ENABLED RunTask(t))
    /\ []<>(~timer_held)
    /\ <>[][~UserActs]_vars => ([]<>AllIdle /\ []<>(monitor.pc = "sleep"))

\* set_auto_lock_timer holds the auto_lock_timer guard and is about to take
\* the is_unlocked mutex, while the monitoring thread waits for the guard and
\* an unlock_vault is between its two writes.
C19_Witness ==
    /\ timer_held
    /\ monitor.pc = "timer"
    /\ \E t \in BagToSet(tasks) : At(t, "set_auto_lock_timer", 1)
    /\ \E t \in BagToSet(tasks) : At(t, "unlock_vault", 1)

\* A step of anything but unlock_vault's write after a matching password.
OtherStep ==
    \/ Tick
    \/ \E password \in Passwords \ {DemoPassword} : UnlockVaultCheck(FALSE, password)
    \/ LockVaultSetLocked(FALSE)
    \/ get_vault_status(FALSE)
    \/ update_activity(FALSE)
    \/ \E seconds \in TimerChoices : SetTimerWrite(FALSE, seconds)
    \/ get_auto_lock_timer(FALSE)
    \/ \E t \in BagToSet(tasks) : RunTask(t)
    \/ AutoLockMonitor(FALSE)
    \/ Biometrics(FALSE)
    \/ Keychain(FALSE)

\* C20: the session starts locked, and the only step that takes is_unlocked
\* from false to true is unlock_vault's write after the password matched: no
\* statement of lock_vault, update_activity, set_auto_lock_timer,
\* get_auto_lock_timer, get_vault_status, of the monitoring thread, of the
\* biometric, keychain and clipboard commands, no later statement of
\* unlock_vault and no unlock_vault with a wrong password does it; so after a
\* lock the session stays locked until that step.
C20_OnlyMatchingUnlockUnlocks ==
    /\ ~is_unlocked
    /\ [][/\ (~is_unlocked /\ is_unlocked') => UnlockVaultCheck(FALSE, DemoPassword)
          /\ (~is_unlocked /\ OtherStep) => ~is_unlocked']_vars

\* unlock_vault has just unlocked the session after an unlock_vault with a
\* wrong password had returned Ok(false) and left it locked.
C20_Witness ==
    /\ is_unlocked
    /\ \E t \in BagToSet(tasks) : At(t, "unlock_vault", 1)
    /\ result = OkBool("unlock_vault", FALSE)
    /\ last_activity = None

\* C21: whenever no unlock_vault, lock_vault or set_auto_lock_timer is in
\* flight, the tray menu installed last has the "lock" item if and only if the
\* session is unlocked.
C21_TrayMenuShowsLockState ==
    AllIdle => tray_menu = create_system_tray_menu(is_unlocked)

====
